---- MODULE Spec2Model ----
(***************************************************************************)
(* A model of the automated-testing CI/CD tool: the validator and the      *)
(* transformer (src/src/main.py), the configuration resolver               *)
(* (src/src/utils.py), the file and API adapters (src/src/automation.py)   *)
(* and the command-line driver main() (src/src/main.py).                   *)
(*                                                                         *)
(* Python objects are tagged records.  A float is held in quarters (field  *)
(* q), so that the product of two floats that are multiples of 1/2 is      *)
(* exact; float('nan') is the float with nan = TRUE.  An outcome of a call *)
(* is either a returned value or a raised exception.                       *)
(***************************************************************************)
EXTENDS Integers, Sequences, FiniteSets, TLC

VARIABLES
    fs,        \* the file system: path -> file state
    net,       \* what the HTTP request of the API adapter meets
    args,      \* the parsed command line (parse_args)
    pc,        \* main's position: "start", "logging", "dispatch", "done"
    config,    \* main's local `config`
    exitCode,  \* main's return value, NoExit while it has not returned
    escaped,   \* the exception that left main uncaught, "none" otherwise
    caught,    \* the exception main's except clause (line 200) caught, or "none"
    out,       \* the lines main printed
    ran,       \* the source paths main entered, in order
    calls,     \* the process_data calls of the run, in order
    call       \* the last direct call of a library function

vars == <<fs, net, args, pc, config, exitCode, escaped, caught, out, ran, calls, call>>

(***************************** bounds **************************************)
MaxInt == 2
MaxHalves == 5

(************************** Python values **********************************)
Null == [t |-> "null"]
B(b) == [t |-> "bool", b |-> b]
I(n) == [t |-> "int", n |-> n]
F(q) == [t |-> "float", nan |-> FALSE, q |-> q]
NaN == [t |-> "float", nan |-> TRUE, q |-> 0]
S(s) == [t |-> "str", s |-> s]
L(items) == [t |-> "list", items |-> items]
D(d) == [t |-> "dict", d |-> d]

EmptyDict == D(<<>>)

\* a float that is h halves: h = 5 is 2.5
Halves(h) == F(2 * h)

Ints == {I(n) : n \in -1 .. MaxInt}
Floats == {Halves(h) : h \in {-1, 0, 1, MaxHalves}} \cup {NaN}
Bools == {B(TRUE), B(FALSE)}

\* isinstance(v, (int, float)): bool is a subclass of int
IsIntOrFloat(v) == v.t \in {"int", "bool", "float"}

\* the integer a bool or an int stands for in arithmetic
IntOf(v) == IF v.t = "bool" THEN (IF v.b THEN 1 ELSE 0) ELSE v.n

\* v < 0 for a number: every comparison with nan is False
LessThanZero(v) ==
    IF v.t = "float" THEN ~v.nan /\ v.q < 0 ELSE IntOf(v) < 0

\* bool(v)
Truthy(v) ==
    CASE v.t = "null" -> FALSE
      [] v.t = "bool" -> v.b
      [] v.t = "int" -> v.n # 0
      [] v.t = "float" -> v.nan \/ v.q # 0
      [] v.t = "str" -> v.s # ""
      [] v.t = "list" -> v.items # <<>>
      [] v.t = "dict" -> DOMAIN v.d # {}

RECURSIVE RepeatStr(_, _)
RepeatStr(s, n) == IF n <= 0 THEN "" ELSE s \o RepeatStr(s, n - 1)

RECURSIVE RepeatSeq(_, _)
RepeatSeq(items, n) == IF n <= 0 THEN <<>> ELSE items \o RepeatSeq(items, n - 1)

(************************** call outcomes **********************************)
Return(v) == [exc |-> "none", msg |-> "", ret |-> v]
Raise(e, m) == [exc |-> e, msg |-> m, ret |-> Null]
Raised(o) == o.exc # "none"

\* a * b: numbers multiply, a sequence is repeated by an int, anything else
\* is a TypeError
Mul(a, b) ==
    CASE a.t \in {"int", "bool"} /\ b.t \in {"int", "bool"} ->
            Return(I(IntOf(a) * IntOf(b)))
      [] a.t \in {"int", "bool"} /\ b.t = "float" ->
            Return(IF b.nan THEN NaN ELSE F(IntOf(a) * b.q))
      [] a.t = "float" /\ b.t \in {"int", "bool"} ->
            Return(IF a.nan THEN NaN ELSE F(a.q * IntOf(b)))
      [] a.t = "float" /\ b.t = "float" ->
            Return(IF a.nan \/ b.nan THEN NaN ELSE F((a.q * b.q) \div 4))
      [] a.t \in {"int", "bool"} /\ b.t = "str" ->
            Return(S(RepeatStr(b.s, IntOf(a))))
      [] a.t = "str" /\ b.t \in {"int", "bool"} ->
            Return(S(RepeatStr(a.s, IntOf(b))))
      [] a.t \in {"int", "bool"} /\ b.t = "list" ->
            Return(L(RepeatSeq(b.items, IntOf(a))))
      [] a.t = "list" /\ b.t \in {"int", "bool"} ->
            Return(L(RepeatSeq(a.items, IntOf(b))))
      [] OTHER -> Raise("TypeError", "unsupported operand type(s) for *")

\* obj.get(key, default): only a dict has .get
DictGet(obj, key, default) ==
    IF obj.t # "dict"
    THEN Raise("AttributeError", "object has no attribute 'get'")
    ELSE Return(IF key \in DOMAIN obj.d THEN obj.d[key] ELSE default)

(**************************** file system **********************************)
Missing == [st |-> "missing", json |-> FALSE, v |-> Null, raw |-> ""]
Unreadable == [st |-> "unreadable", json |-> FALSE, v |-> Null, raw |-> ""]
JsonFile(v) == [st |-> "text", json |-> TRUE, v |-> v, raw |-> ""]
TextFile(raw) == [st |-> "text", json |-> FALSE, v |-> Null, raw |-> raw]

\* os.path.exists(path)
Exists(files, path) == files[path].st # "missing"

\* open(path).read(): the text, as a file state, or the OSError
ReadFile(files, path) ==
    CASE files[path].st = "missing" ->
            Raise("FileNotFoundError", "No such file or directory: " \o path)
      [] files[path].st = "unreadable" ->
            Raise("PermissionError", "Permission denied: " \o path)
      [] OTHER -> Return(files[path])

\* json.loads(text)
JsonLoads(text) ==
    IF text.json THEN Return(text.v)
    ELSE Raise("JSONDecodeError", "Expecting value: line 1 column 1 (char 0)")

ConfigPath == "config.json"
InputPath == "in.json"
LogPath == "app.log"
Paths == {ConfigPath, InputPath, LogPath}

(************************ src/src/utils.py *********************************)
\* a load_config that takes a malformed file for an empty configuration
load_config_SwallowsParseError(files, config_path) ==
    IF ~Exists(files, config_path)
    THEN Return(EmptyDict)
    ELSE LET f == ReadFile(files, config_path)
         IN  IF Raised(f) THEN f
             ELSE IF Raised(JsonLoads(f.ret)) THEN Return(EmptyDict)
             ELSE JsonLoads(f.ret)

load_config(files, config_path) ==
    IF ~Exists(files, config_path)
    THEN Return(EmptyDict)
    ELSE LET f == ReadFile(files, config_path)
         IN  IF Raised(f) THEN f ELSE JsonLoads(f.ret)

\* the body of get_config_value's try block
ConfigLookup(files, section, key, default, config_path) ==
    LET cfg == load_config(files, config_path)
    IN  IF Raised(cfg) THEN cfg
        ELSE LET sec == DictGet(cfg.ret, section, EmptyDict)
             IN  IF Raised(sec) THEN sec ELSE DictGet(sec.ret, key, default)

\* a get_config_value without its try/except
get_config_value_NoCatch(files, section, key, default, config_path) ==
    ConfigLookup(files, section, key, default, config_path)

get_config_value(files, section, key, default, config_path) ==
    LET r == ConfigLookup(files, section, key, default, config_path)
    IN  IF Raised(r) THEN Return(default) ELSE r

(********************** src/src/automation.py ******************************)
\* a file_automation without the os.path.exists check of line 28
file_automation_NoExistsCheck(files, file_path) ==
    LET f == ReadFile(files, file_path)
    IN  IF Raised(f)
        THEN Return(D([success |-> B(FALSE),
                       message |-> S("Error processing file: " \o f.msg),
                       data |-> Null]))
        ELSE LET data == JsonLoads(f.ret)
             IN  IF data.exc = "JSONDecodeError"
                 THEN Return(D([success |-> B(FALSE),
                                message |-> S("File content is not valid JSON"),
                                data |-> S(f.ret.raw)]))
                 ELSE Return(D([success |-> B(TRUE),
                                message |-> S("File successfully processed as JSON"),
                                data |-> data.ret]))

file_automation(files, file_path) ==
    IF ~Exists(files, file_path)
    THEN Return(D([success |-> B(FALSE),
                   message |-> S("File not found: " \o file_path),
                   data |-> Null]))
    ELSE LET f == ReadFile(files, file_path)
         IN  IF Raised(f)
             THEN Return(D([success |-> B(FALSE),
                            message |-> S("Error processing file: " \o f.msg),
                            data |-> Null]))
             ELSE LET data == JsonLoads(f.ret)
                  IN  IF data.exc = "JSONDecodeError"
                      THEN Return(D([success |-> B(FALSE),
                                     message |-> S("File content is not valid JSON"),
                                     data |-> S(f.ret.raw)]))
                      ELSE Return(D([success |-> B(TRUE),
                                     message |-> S("File successfully processed as JSON"),
                                     data |-> data.ret]))

\* what requests.request meets: no response at all, or a response
NoResponse(m) == [kind |-> "error", msg |-> m, status |-> 0, body |-> TextFile("")]
Response(status, body) == [kind |-> "response", msg |-> "", status |-> status, body |-> body]

\* response.json() or, when the body is not JSON, response.text
BodyData(body) ==
    LET j == JsonLoads(body) IN IF Raised(j) THEN S(body.raw) ELSE j.ret

\* an api_automation whose success range takes in status 300
api_automation_InclusiveUpper(network, url) ==
    IF network.kind = "error"
    THEN Return(D([success |-> B(FALSE),
                   message |-> S("Error making API request: " \o network.msg),
                   data |-> Null,
                   status_code |-> Null]))
    ELSE IF network.status >= 200 /\ network.status <= 300
    THEN Return(D([success |-> B(TRUE),
                   message |-> S(IF network.body.json
                                 THEN "API request successful"
                                 ELSE "API request successful but response is not JSON"),
                   data |-> BodyData(network.body),
                   status_code |-> I(network.status)]))
    ELSE Return(D([success |-> B(FALSE),
                   message |-> S("API request failed with status code: "
                                 \o ToString(network.status)),
                   data |-> BodyData(network.body),
                   status_code |-> I(network.status)]))

api_automation(network, url) ==
    IF network.kind = "error"
    THEN Return(D([success |-> B(FALSE),
                   message |-> S("Error making API request: " \o network.msg),
                   data |-> Null,
                   status_code |-> Null]))
    ELSE IF network.status >= 200 /\ network.status < 300
    THEN Return(D([success |-> B(TRUE),
                   message |-> S(IF network.body.json
                                 THEN "API request successful"
                                 ELSE "API request successful but response is not JSON"),
                   data |-> BodyData(network.body),
                   status_code |-> I(network.status)]))
    ELSE Return(D([success |-> B(FALSE),
                   message |-> S("API request failed with status code: "
                                 \o ToString(network.status)),
                   data |-> BodyData(network.body),
                   status_code |-> I(network.status)]))

(************************ src/src/main.py **********************************)
validate_input(data) ==
    IF data.t # "dict" THEN FALSE
    ELSE IF ~({"name", "value"} \subseteq DOMAIN data.d) THEN FALSE
    ELSE IF data.d["name"].t # "str" \/ ~Truthy(data.d["name"]) THEN FALSE
    ELSE IF ~IsIntOrFloat(data.d["value"]) \/ LessThanZero(data.d["value"])
         THEN FALSE
    ELSE TRUE

\* what a process_data call did, beside its outcome: the record it was given,
\* what validate_input said of it, whether the configuration was read and
\* whether the multiplication was evaluated
Traced(o, data, valid, cfgRead, multiplied) ==
    [exc |-> o.exc, msg |-> o.msg, ret |-> o.ret, rec |-> data,
     valid |-> valid, cfgRead |-> cfgRead, multiplied |-> multiplied]

\* a default multiplier of 3
DefaultMultiplier_Three == I(3)

\* the default of line 53
DefaultMultiplier == I(2)

\* lines 50-66 of process_data: the transform of a record that passed the gate
Transform(files, data, config_path) ==
    LET multiplier ==
            get_config_value(files, "processing", "default_multiplier",
                             DefaultMultiplier, config_path)
        processed_value == Mul(data.d["value"], multiplier.ret)
    IN  IF Raised(multiplier)
        THEN Traced(multiplier, data, TRUE, TRUE, FALSE)
        ELSE IF Raised(processed_value)
        THEN Traced(processed_value, data, TRUE, TRUE, TRUE)
        ELSE Traced(Return(D([status |-> S("success"),
                              original_value |-> data.d["value"],
                              processed_value |-> processed_value.ret,
                              name |-> data.d["name"]])),
                    data, TRUE, TRUE, TRUE)

\* a process_data whose gate checks the keys only, not the name and the value
process_data_KeysOnlyGate(files, data, config_path) ==
    IF ~(data.t = "dict" /\ {"name", "value"} \subseteq DOMAIN data.d)
    THEN Traced(Raise("ValueError", "Invalid input data"),
                data, FALSE, FALSE, FALSE)
    ELSE Transform(files, data, config_path)

process_data(files, data, config_path) ==
    IF ~validate_input(data)
    THEN Traced(Raise("ValueError", "Invalid input data"),
                data, FALSE, FALSE, FALSE)
    ELSE Transform(files, data, config_path)

\* an outcome together with the process_data calls made on the way to it
WithCalls(o, pd) == [exc |-> o.exc, msg |-> o.msg, ret |-> o.ret, pd |-> pd]

\* a process_file that reads through the file adapter and hands back the
\* adapter's soft failure
process_file_ViaAdapter(files, file_path, config_path) ==
    LET a == file_automation(files, file_path)
    IN  IF ~Truthy(a.ret.d["success"])
        THEN WithCalls(a, <<>>)
        ELSE LET r == process_data(files, a.ret.d["data"], config_path)
             IN  WithCalls(r, <<r>>)

process_file(files, file_path, config_path) ==
    LET f == ReadFile(files, file_path)
        data == IF Raised(f) THEN f ELSE JsonLoads(f.ret)
    IN  IF Raised(data)
        THEN WithCalls(data, <<>>)
        ELSE LET r == process_data(files, data.ret, config_path)
             IN  WithCalls(r, <<r>>)

\* an extraction that takes the default for a falsy title or id too
ExtractedData_FalsyDefaults(response_data) ==
    IF response_data.t # "dict"
    THEN Raise("AttributeError", "object has no attribute 'get'")
    ELSE Return(D([name |-> IF "title" \in DOMAIN response_data.d
                               /\ Truthy(response_data.d["title"])
                            THEN response_data.d["title"] ELSE S("Unknown"),
                   value |-> IF "id" \in DOMAIN response_data.d
                                /\ Truthy(response_data.d["id"])
                             THEN response_data.d["id"] ELSE I(0)]))

\* lines 110-113: extracted_data
ExtractedData(response_data) ==
    LET title == DictGet(response_data, "title", S("Unknown"))
        id == DictGet(response_data, "id", I(0))
    IN  IF Raised(title) THEN title
        ELSE IF Raised(id) THEN id
        ELSE Return(D([name |-> title.ret, value |-> id.ret]))

process_api_response(files, response_data, config_path) ==
    LET extracted_data == ExtractedData(response_data)
    IN  IF Raised(extracted_data) THEN WithCalls(extracted_data, <<>>)
        ELSE LET r == process_data(files, extracted_data.ret, config_path)
             IN  IF r.exc = "none"
                 THEN WithCalls(
                          Return(D([r.ret.d EXCEPT !["status"] = S("processed")])),
                          <<r>>)
                 ELSE IF r.exc = "ValueError"
                 THEN WithCalls(Return(D([status |-> S("error"),
                                          message |-> S(r.msg)])), <<r>>)
                 ELSE WithCalls(r, <<r>>)

(*************************** the inputs ***********************************)
Names == {S(""), S("a"), I(1), Null}
Values == Ints \cup {I(42), I(100)} \cup Floats \cup Bools \cup {S("5"), Null}

Records ==
    {EmptyDict, D([value |-> I(1)])}
    \cup {D([name |-> n]) : n \in Names}
    \cup {D([name |-> n, value |-> v]) : n \in Names, v \in Values}
    \cup {D([name |-> S("a"), value |-> I(MaxInt), extra |-> Null])}

Objects == Records \cup {Null, I(1), S("a"), L(<<>>), B(TRUE)}

Multipliers ==
    Ints \cup {Halves(1), Halves(MaxHalves), NaN, B(TRUE), Null, S("ab"),
               L(<<>>), EmptyDict}

ProcessingSections ==
    {EmptyDict, L(<<>>), Null} \cup {D([default_multiplier |-> m]) : m \in Multipliers}

LoggingSections ==
    {D([level |-> S("DEBUG")]), D([level |-> S("VERBOSE")]),
     D([format |-> S("%(message)s")]), D([file |-> S(LogPath)]),
     D([file |-> S("/no/such/dir/app.log")]), S("on")}

SampleRecords ==
    {D([name |-> S("Configured"), value |-> I(MaxInt)]),
     D([name |-> S(""), value |-> I(1)]),
     D([name |-> S("Configured"), value |-> I(-1)]),
     L(<<>>)}

TestDataSections == {L(<<>>)} \cup {D([valid_sample |-> r]) : r \in SampleRecords}

\* the configuration files the library calls are tried on
LibConfigFiles ==
    {Missing, Unreadable, TextFile("{not json"), JsonFile(L(<<>>)), JsonFile(S("x"))}
    \cup {JsonFile(D([processing |-> p])) : p \in ProcessingSections}
    \cup {JsonFile(D([logging |-> D([level |-> S("DEBUG")])]))}

\* the configuration files main is run with
ConfigFiles ==
    {Missing, Unreadable, TextFile("{not json"), JsonFile(EmptyDict), JsonFile(L(<<>>))}
    \cup {JsonFile(D([processing |-> D([default_multiplier |-> m])])) :
             m \in {I(MaxInt), Halves(MaxHalves), Null, S("ab")}}
    \cup {JsonFile(D([logging |-> l])) : l \in LoggingSections}
    \cup {JsonFile(D([test_data |-> t])) : t \in TestDataSections}
    \cup {JsonFile(D([processing |-> D([default_multiplier |-> I(MaxInt)]),
                      logging |-> D([level |-> S("DEBUG"), file |-> S(LogPath)]),
                      test_data |-> D([valid_sample |->
                          D([name |-> S("Configured"), value |-> I(1)])])]))}

InputFiles ==
    {Missing, Unreadable, TextFile("not json"), JsonFile(L(<<>>)), JsonFile(Null)}
    \cup {JsonFile(D([name |-> n, value |-> v])) :
             n \in {S(""), S("a")}, v \in {I(-1), I(MaxInt), Halves(MaxHalves), B(TRUE)}}
    \cup {JsonFile(D([title |-> S("a"), id |-> I(1)]))}

Bodies ==
    {D([userId |-> I(1), id |-> I(1), title |-> S("delectus aut autem"),
        completed |-> B(FALSE)]),
     EmptyDict,
     D([title |-> S("t")]),
     D([id |-> I(MaxInt)]),
     D([title |-> S(""), id |-> I(1)]),
     D([title |-> Null, id |-> I(1)]),
     D([title |-> S("t"), id |-> Null]),
     D([title |-> S("t"), id |-> I(0)]),
     D([title |-> S("t"), id |-> I(-1)]),
     L(<<>>)}

Networks ==
    {NoResponse("Connection refused")}
    \cup {Response(200, JsonFile(b)) : b \in Bodies}
    \cup {Response(st, b) : st \in {199, 200, 299, 300, 404},
                           b \in {JsonFile(D([title |-> S("t"), id |-> I(1)])),
                                  TextFile("<html>")}}

\* the networks api_automation is called on directly: an empty body and a
\* transport error whose text is empty beside those main meets
LibNetworks ==
    Networks \cup {Response(204, TextFile("")), NoResponse(""),
                   NoResponse("Read timed out")}

ApiUrl == "https://jsonplaceholder.typicode.com/todos/1"

Args ==
    [config : {ConfigPath},
     input : {Null, S(""), S(InputPath)},
     api : {Null, S(ApiUrl)},
     verbose : BOOLEAN]

NoCall == [fn |-> "none"]

(********************** main(), src/src/main.py ****************************)
NoExit == Null

\* the names getattr(logging, name) resolves to a level
LevelNames == {"DEBUG", "INFO", "WARNING", "ERROR", "CRITICAL"}

\* getattr(logging, name)
GetLevel(name) ==
    IF name.t # "str"
    THEN Raise("TypeError", "attribute name must be string")
    ELSE IF name.s \in LevelNames
    THEN Return(name)
    ELSE Raise("AttributeError", "module 'logging' has no attribute " \o name.s)

\* logging.FileHandler(log_file): opens the file for appending
FileHandler(files, log_file) ==
    IF log_file.t # "str"
    THEN Raise("TypeError", "expected str, bytes or os.PathLike object")
    ELSE IF log_file.s \in DOMAIN files /\ files[log_file.s].st # "unreadable"
    THEN Return(log_file)
    ELSE Raise("FileNotFoundError", "No such file or directory: " \o log_file.s)

\* config.get("logging", {}).get(key, default)
LoggingOption(cfg, key, default) ==
    LET sec == DictGet(cfg, "logging", EmptyDict)
    IN  IF Raised(sec) THEN sec ELSE DictGet(sec.ret, key, default)

\* lines 150-172 of main: the log level, the format, the file handler
LoggingSetup(files, cfg, verbose) ==
    LET name == LoggingOption(cfg, "level", S("INFO"))
        log_level == IF verbose THEN Return(S("DEBUG"))
                     ELSE IF Raised(name) THEN name ELSE GetLevel(name.ret)
        log_format == LoggingOption(cfg, "format", S("%(asctime)s - %(message)s"))
        log_file == LoggingOption(cfg, "file", Null)
    IN  IF Raised(log_level) THEN log_level
        ELSE IF Raised(log_format) THEN log_format
        ELSE IF Raised(log_file) THEN log_file
        ELSE IF Truthy(log_file.ret) THEN FileHandler(files, log_file.ret)
        ELSE Return(Null)

Printed(tag, v) == [tag |-> tag, v |-> v]

\* The input file is read on the file path only and the network is met on the
\* API path only: elsewhere they are held at one value.
Init ==
    /\ args \in Args
    /\ fs \in {[p \in Paths |-> CASE p = ConfigPath -> c
                                  [] p = InputPath -> i
                                  [] OTHER -> Missing] :
                  c \in ConfigFiles,
                  i \in IF Truthy(args.input) THEN InputFiles ELSE {Missing}}
    /\ net \in IF ~Truthy(args.input) /\ Truthy(args.api)
               THEN Networks
               ELSE {NoResponse("Connection refused")}
    /\ pc = "start"
    /\ config = Null
    /\ exitCode = NoExit
    /\ escaped = "none"
    /\ caught = "none"
    /\ out = <<>>
    /\ ran = <<>>
    /\ calls = <<>>
    /\ call = NoCall

\* lines 143-148
LoadConfig ==
    /\ pc = "start"
    /\ LET c == load_config(fs, args.config)
       IN  IF Raised(c)
           THEN /\ out' = Append(out, Printed("Failed to load configuration", S(c.msg)))
                /\ exitCode' = I(1)
                /\ pc' = "done"
                /\ UNCHANGED config
           ELSE /\ config' = c.ret
                /\ pc' = "logging"
                /\ UNCHANGED <<out, exitCode>>
    /\ UNCHANGED <<fs, net, args, escaped, caught, ran, calls, call>>

\* lines 150-172: outside both try blocks
SetupLogging ==
    /\ pc = "logging"
    /\ LET r == LoggingSetup(fs, config, args.verbose)
       IN  IF Raised(r)
           THEN /\ escaped' = r.exc
                /\ pc' = "done"
                /\ UNCHANGED fs
           ELSE /\ pc' = "dispatch"
                /\ fs' = IF r.ret.t = "str" /\ ~Exists(fs, r.ret.s)
                         THEN [fs EXCEPT ![r.ret.s] = TextFile("")]
                         ELSE fs
                /\ UNCHANGED escaped
    /\ UNCHANGED <<net, args, config, exitCode, caught, out, ran, calls, call>>

\* line 176: if args.input
UseFile == Truthy(args.input)

\* a dispatch that looks at --api without regard to --input
UseApi_IgnoresInput == Truthy(args.api)

\* line 182: elif args.api
UseApi == ~Truthy(args.input) /\ Truthy(args.api)

\* line 193: else
UseSample == ~Truthy(args.input) /\ ~Truthy(args.api)

\* lines 176-179, and the except of lines 200-202
RunFile ==
    /\ pc = "dispatch"
    /\ UseFile
    /\ LET r == process_file(fs, args.input.s, args.config)
       IN  /\ ran' = Append(ran, "file")
           /\ calls' = calls \o r.pd
           /\ caught' = r.exc
           /\ IF Raised(r)
              THEN exitCode' = I(1) /\ UNCHANGED out
              ELSE exitCode' = I(0) /\ out' = Append(out, Printed("Result", r.ret))
    /\ pc' = "done"
    /\ UNCHANGED <<fs, net, args, config, escaped, call>>

\* lines 182-190, and the except of lines 200-202
RunApi ==
    /\ pc = "dispatch"
    /\ UseApi
    /\ LET response == api_automation(net, args.api.s)
           processed == process_api_response(fs, response.ret.d["data"], args.config)
       IN  /\ ran' = Append(ran, "api")
           /\ IF Raised(response)
              THEN /\ caught' = response.exc
                   /\ exitCode' = I(1)
                   /\ UNCHANGED <<out, calls>>
              ELSE IF Truthy(response.ret.d["success"])
              THEN /\ calls' = calls \o processed.pd
                   /\ caught' = processed.exc
                   /\ IF Raised(processed)
                      THEN exitCode' = I(1) /\ UNCHANGED out
                      ELSE /\ exitCode' = I(0)
                           /\ out' = Append(out, Printed("Processed result", processed.ret))
              ELSE /\ exitCode' = I(0)
                   /\ out' = Append(out, Printed("API request failed",
                                                 response.ret.d["message"]))
                   /\ UNCHANGED <<calls, caught>>
    /\ pc' = "done"
    /\ UNCHANGED <<fs, net, args, config, escaped, call>>

\* the default of lines 195-196
DefaultSample == D([name |-> S("Sample"), value |-> I(10)])

\* lines 193-198, and the except of lines 200-202
RunSample ==
    /\ pc = "dispatch"
    /\ UseSample
    /\ LET test_data == DictGet(config, "test_data", EmptyDict)
           sample_data == IF Raised(test_data) THEN test_data
                          ELSE DictGet(test_data.ret, "valid_sample", DefaultSample)
           r == process_data(fs, sample_data.ret, args.config)
       IN  /\ ran' = Append(ran, "sample")
           /\ IF Raised(sample_data)
              THEN /\ caught' = sample_data.exc
                   /\ exitCode' = I(1)
                   /\ UNCHANGED <<out, calls>>
              ELSE /\ calls' = Append(calls, r)
                   /\ caught' = r.exc
                   /\ IF Raised(r)
                      THEN exitCode' = I(1) /\ UNCHANGED out
                      ELSE /\ exitCode' = I(0)
                           /\ out' = Append(out, Printed("Sample processing result", r.ret))
    /\ pc' = "done"
    /\ UNCHANGED <<fs, net, args, config, escaped, call>>

Next == LoadConfig \/ SetupLogging \/ RunFile \/ RunApi \/ RunSample

Spec == Init /\ [][Next]_vars

(******************* direct calls of the library functions *****************)
\* The network is met by api_automation only: it varies in the states whose
\* files are all missing and is held at one value elsewhere.
LibInit ==
    /\ fs \in {[p \in Paths |-> CASE p = ConfigPath -> c
                                  [] p = InputPath -> i
                                  [] OTHER -> Missing] :
                  c \in LibConfigFiles,
                  i \in {Missing, Unreadable, TextFile("not json"),
                         JsonFile(D([name |-> S("Temp File Test"), value |-> I(100)]))}}
    /\ net \in IF fs[ConfigPath] = Missing /\ fs[InputPath] = Missing
               THEN LibNetworks
               ELSE {NoResponse("Connection refused")}
    /\ args \in {[config |-> ConfigPath, input |-> Null, api |-> Null, verbose |-> FALSE]}
    /\ pc = "lib"
    /\ config = Null
    /\ exitCode = NoExit
    /\ escaped = "none"
    /\ caught = "none"
    /\ out = <<>>
    /\ ran = <<>>
    /\ calls = <<>>
    /\ call = NoCall

LibUnchanged ==
    UNCHANGED <<fs, net, args, pc, config, exitCode, escaped, caught, out, ran, calls>>

CallValidateInput ==
    /\ call = NoCall
    /\ \E data \in Objects :
          call' = [fn |-> "validate_input", data |-> data, ret |-> validate_input(data)]
    /\ LibUnchanged

CallProcessData ==
    /\ call = NoCall
    /\ \E data \in Objects :
          call' = [fn |-> "process_data", data |-> data,
                   o |-> process_data(fs, data, ConfigPath)]
    /\ LibUnchanged

CallLoadConfig ==
    /\ call = NoCall
    /\ \E path \in {ConfigPath, InputPath} :
          call' = [fn |-> "load_config", path |-> path, o |-> load_config(fs, path)]
    /\ LibUnchanged

CallGetConfigValue ==
    /\ call = NoCall
    /\ \E section \in {"processing", "logging", "absent"},
          key \in {"default_multiplier", "level"},
          default \in {I(2), Null, S("INFO")},
          path \in {ConfigPath, InputPath} :
          call' = [fn |-> "get_config_value", section |-> section, key |-> key,
                   default |-> default, path |-> path,
                   o |-> get_config_value(fs, section, key, default, path)]
    /\ LibUnchanged

CallFileAutomation ==
    /\ call = NoCall
    /\ \E path \in {ConfigPath, InputPath} :
          call' = [fn |-> "file_automation", path |-> path,
                   o |-> file_automation(fs, path)]
    /\ LibUnchanged

CallApiAutomation ==
    /\ call = NoCall
    /\ call' = [fn |-> "api_automation", url |-> ApiUrl,
                o |-> api_automation(net, ApiUrl)]
    /\ LibUnchanged

LibNext ==
    \/ CallValidateInput
    \/ CallProcessData
    \/ CallLoadConfig
    \/ CallGetConfigValue
    \/ CallFileAutomation
    \/ CallApiAutomation

LibSpec == LibInit /\ [][LibNext]_vars

(***************************** the claims *********************************)

\* the record shape the validator is specified to accept: a mapping with a
\* text name of length >= 1 and an integer or floating-point value >= 0
SpecifiedValid(data) ==
    /\ data.t = "dict"
    /\ {"name", "value"} \subseteq DOMAIN data.d
    /\ data.d["name"].t = "str"
    /\ Len(data.d["name"].s) >= 1
    /\ data.d["value"].t \in {"int", "float"}
    /\ IF data.d["value"].t = "int"
       THEN data.d["value"].n >= 0
       ELSE ~data.d["value"].nan /\ data.d["value"].q >= 0

\* C1: validate_input(record) is true exactly when record is a mapping with
\* both keys, a text name of length >= 1 and an integer or float value >= 0;
\* a boolean value, like text or null, makes it false.
C1_ValidateExactly ==
    call.fn = "validate_input" => (call.ret <=> SpecifiedValid(call.data))

\* the multiplier the configuration file gives: processing.default_multiplier
\* when that key is present, 2 otherwise
KeyPresent(f) ==
    /\ f.st = "text"
    /\ f.json
    /\ f.v.t = "dict"
    /\ "processing" \in DOMAIN f.v.d
    /\ f.v.d["processing"].t = "dict"
    /\ "default_multiplier" \in DOMAIN f.v.d["processing"].d

SpecifiedMultiplier(f) ==
    IF KeyPresent(f) THEN f.v.d["processing"].d["default_multiplier"] ELSE I(2)

IsNumber(v) == v.t \in {"int", "float"}

SuccessOf(data, multiplier) ==
    Return(D([status |-> S("success"),
              original_value |-> data.d["value"],
              processed_value |-> Mul(data.d["value"], multiplier).ret,
              name |-> data.d["name"]]))

ReturnedBy(o) == [exc |-> o.exc, msg |-> o.msg, ret |-> o.ret]

\* C2 as stated: for every valid record and every configuration process_data
\* returns status "success", original_value = value, name = name and
\* processed_value = value * multiplier.
C2_AnyConfiguration ==
    (call.fn = "process_data" /\ validate_input(call.data))
    => ReturnedBy(call.o) = SuccessOf(call.data, SpecifiedMultiplier(fs[ConfigPath]))

\* C2 amended: the same, for every configuration whose
\* processing.default_multiplier, when present, is a number; with no
\* configuration file 42 gives 84 and 100 gives 200.
C2_NumericMultiplier ==
    (call.fn = "process_data" /\ validate_input(call.data))
    => /\ IsNumber(SpecifiedMultiplier(fs[ConfigPath]))
          => ReturnedBy(call.o)
                 = SuccessOf(call.data, SpecifiedMultiplier(fs[ConfigPath]))
       /\ (fs[ConfigPath] = Missing /\ call.data.d["value"] = I(42))
          => call.o.ret.d["processed_value"] = I(84)
       /\ (fs[ConfigPath] = Missing /\ call.data.d["value"] = I(100))
          => call.o.ret.d["processed_value"] = I(200)

C2_Witness ==
    /\ call.fn = "process_data"
    /\ validate_input(call.data)
    /\ KeyPresent(fs[ConfigPath])
    /\ SpecifiedMultiplier(fs[ConfigPath]) = Halves(MaxHalves)
    /\ call.data.d["value"] = Halves(1)
    /\ call.o.ret.d["processed_value"] = F(MaxHalves)

\* what a process_data call that stopped at the validation gate looks like
StoppedAtGate(c) ==
    c.exc = "ValueError" /\ ~c.valid /\ ~c.cfgRead /\ ~c.multiplied

\* C3: a record that fails validation never reaches the transform:
\* process_data raises ValueError on it before the configuration is read or
\* the multiplication is evaluated, and on every driver path a multiplication
\* is evaluated only on a record that validate_input accepted.
C3_GateBeforeTransform ==
    /\ \A data \in Objects :
          ~validate_input(data)
          => StoppedAtGate(process_data(fs, data, args.config))
    /\ \A k \in 1 .. Len(calls) :
          /\ ~validate_input(calls[k].rec) => StoppedAtGate(calls[k])
          /\ (calls[k].cfgRead \/ calls[k].multiplied)
             => calls[k].valid /\ validate_input(calls[k].rec)

C3_Witness ==
    /\ pc = "done"
    /\ ran = <<"file">>
    /\ Len(calls) = 1
    /\ calls[1].rec = D([name |-> S("a"), value |-> I(-1)])
    /\ StoppedAtGate(calls[1])
    /\ caught = "ValueError"

\* C4: every run of main ends by returning 0 or 1 and no exception leaves
\* main: 1 when loading the configuration fails or an exception is raised
\* after the configuration was loaded, 0 on normal completion.
C4_ExitBoundary ==
    pc = "done"
    => /\ escaped = "none"
       /\ exitCode \in {I(0), I(1)}
       /\ Raised(load_config(fs, args.config)) => exitCode = I(1)
       /\ caught # "none" => exitCode = I(1)
       /\ (~Raised(load_config(fs, args.config)) /\ caught = "none")
          => exitCode = I(0)

\* the run took the API path and the adapter reported success with a mapping
AdapterData == api_automation(net, args.api.s).ret.d["data"]

ApiSucceeded ==
    /\ pc = "done"
    /\ ran = <<"api">>
    /\ Truthy(api_automation(net, args.api.s).ret.d["success"])
    /\ AdapterData.t = "dict"

\* body.key or default
OrDefault(body, key, default) ==
    IF key \in DOMAIN body.d /\ Truthy(body.d[key]) THEN body.d[key] ELSE default

\* body.key if the key is present, else default
KeyOrDefault(body, key, default) ==
    IF key \in DOMAIN body.d THEN body.d[key] ELSE default

ProcessedOf(rec, multiplier) ==
    D([status |-> S("processed"),
       original_value |-> rec.d["value"],
       processed_value |-> Mul(rec.d["value"], multiplier).ret,
       name |-> rec.d["name"]])

\* C5 as stated: after an adapter success the body is remapped into
\* {name: title or "Unknown", value: id or 0}, an empty or null title giving
\* "Unknown" and a zero or null id giving 0, and the result has status
\* "processed" and processed_value = value * multiplier.
C5_FalsyDefaults ==
    ApiSucceeded
    => LET rec == D([name |-> OrDefault(AdapterData, "title", S("Unknown")),
                     value |-> OrDefault(AdapterData, "id", I(0))])
       IN  /\ Len(calls) = 1
           /\ calls[1].rec = rec
           /\ out = <<Printed("Processed result",
                              ProcessedOf(rec, SpecifiedMultiplier(fs[ConfigPath])))>>

\* C5 amended: the defaults stand in for a missing key only; a present title
\* or id is taken as it is.  The record is then validated: a valid record
\* gives, under a numeric multiplier, status "processed" and processed_value =
\* value * multiplier, an invalid one gives status "error" with the message
\* of the ValueError.
C5_MissingKeyDefaults ==
    ApiSucceeded
    => LET rec == D([name |-> KeyOrDefault(AdapterData, "title", S("Unknown")),
                     value |-> KeyOrDefault(AdapterData, "id", I(0))])
           multiplier == SpecifiedMultiplier(fs[ConfigPath])
       IN  /\ Len(calls) = 1
           /\ calls[1].rec = rec
           /\ (validate_input(rec) /\ IsNumber(multiplier))
              => /\ out = <<Printed("Processed result", ProcessedOf(rec, multiplier))>>
                 /\ exitCode = I(0)
           /\ ~validate_input(rec)
              => /\ out = <<Printed("Processed result",
                                    D([status |-> S("error"),
                                       message |-> S("Invalid input data")]))>>
                 /\ exitCode = I(0)
           /\ (rec = D([name |-> S("delectus aut autem"), value |-> I(1)])
               /\ ~KeyPresent(fs[ConfigPath]))
              => out[1].v.d["processed_value"] = I(2)

C5_Witness ==
    /\ ApiSucceeded
    /\ KeyOrDefault(AdapterData, "title", Null) = S("delectus aut autem")
    /\ KeyOrDefault(AdapterData, "id", Null) = I(1)
    /\ fs[ConfigPath] = Missing
    /\ out[1].v.d["status"] = S("processed")
    /\ out[1].v.d["processed_value"] = I(2)

FileRan == pc = "done" /\ ran = <<"file">>

FedUnchanged ==
    (fs[InputPath].st = "text" /\ fs[InputPath].json)
    => Len(calls) = 1 /\ calls[1].rec = fs[InputPath].v

\* C6 as stated: with an input path the parsed content goes unchanged to
\* validate/transform, and a missing input file becomes a soft failure: no
\* exception comes out of the file-processing step.
C6_SoftMissingFile ==
    FileRan
    => /\ FedUnchanged
       /\ fs[InputPath] = Missing => caught = "none"

\* C6 amended: with a non-empty input path main calls process_file, which
\* reads and parses the file itself and feeds the parsed content unchanged to
\* process_data; a missing file is re-raised as FileNotFoundError and a
\* malformed one as JSONDecodeError, which main's except clause turns into
\* exit code 1 with no result printed.
C6_MissingFileRaises ==
    FileRan
    => /\ FedUnchanged
       /\ fs[InputPath] = Missing
          => caught = "FileNotFoundError" /\ exitCode = I(1)
             /\ out = <<>> /\ calls = <<>>
       /\ (fs[InputPath].st = "text" /\ ~fs[InputPath].json)
          => caught = "JSONDecodeError" /\ exitCode = I(1)
             /\ out = <<>> /\ calls = <<>>

C6_Witness ==
    /\ FileRan
    /\ fs[InputPath] = Missing
    /\ caught = "FileNotFoundError"
    /\ exitCode = I(1)

\* the record of each source path
SampleOf(cfg) ==
    IF "test_data" \in DOMAIN cfg.d /\ "valid_sample" \in DOMAIN cfg.d["test_data"].d
    THEN cfg.d["test_data"].d["valid_sample"]
    ELSE D([name |-> S("Sample"), value |-> I(10)])

RecordOf(path) ==
    CASE path = "file" -> fs[InputPath].v
      [] path = "api" ->
            D([name |-> KeyOrDefault(AdapterData, "title", S("Unknown")),
               value |-> KeyOrDefault(AdapterData, "id", I(0))])
      [] path = "sample" -> SampleOf(config)

OnePath(chosen) ==
    /\ ran = <<chosen>>
    /\ Len(calls) <= 1
    /\ \A k \in 1 .. Len(calls) : calls[k].rec = RecordOf(chosen)
    /\ (chosen = "api" /\ ~Truthy(api_automation(net, args.api.s).ret.d["success"]))
       => /\ calls = <<>>
          /\ out = <<Printed("API request failed",
                             api_automation(net, args.api.s).ret.d["message"])>>

\* C7 as stated: in every run exactly one source path executes: the file
\* path when --input is given, else the API path when --api is given, else
\* the sample; the transformer runs at most once, on that path's record, and
\* never after an adapter failure, whose message is reported instead.
C7_EveryRunOnePath ==
    pc = "done"
    => OnePath(IF args.input # Null THEN "file"
               ELSE IF args.api # Null THEN "api" ELSE "sample")

\* C7 amended: the same in every run that reaches the dispatch (the
\* configuration loaded and logging was set up), a run that stops earlier
\* executing no source path; and --input or --api counts as given only when
\* its value is not empty.
C7_DispatchedRunOnePath ==
    /\ pc # "done" => ran = <<>> /\ calls = <<>>
    /\ (pc = "done" /\ (escaped # "none" \/ Raised(load_config(fs, args.config))))
       => ran = <<>> /\ calls = <<>>
    /\ (pc = "done" /\ escaped = "none" /\ ~Raised(load_config(fs, args.config)))
       => OnePath(IF Truthy(args.input) THEN "file"
                  ELSE IF Truthy(args.api) THEN "api" ELSE "sample")

C7_Witness ==
    /\ pc = "done"
    /\ args.input = S(InputPath)
    /\ args.api = S(ApiUrl)
    /\ ran = <<"file">>
    /\ Len(calls) = 1
    /\ calls[1].multiplied

\* the file loads and holds config[section][key]
BothLevels(f, section, key) ==
    /\ f.st = "text"
    /\ f.json
    /\ f.v.t = "dict"
    /\ section \in DOMAIN f.v.d
    /\ f.v.d[section].t = "dict"
    /\ key \in DOMAIN f.v.d[section].d

\* C8: get_config_value never raises: it returns config[section][key] when
\* the configuration loads and both levels exist, and default in every other
\* case (file missing, unreadable or malformed, section or key absent, the
\* content or the section not a mapping).
C8_LookupNeverRaises ==
    call.fn = "get_config_value"
    => /\ call.o.exc = "none"
       /\ call.o.ret = IF BothLevels(fs[call.path], call.section, call.key)
                       THEN fs[call.path].v.d[call.section].d[call.key]
                       ELSE call.default

C8_Witness ==
    /\ call.fn = "get_config_value"
    /\ fs[call.path].st = "text"
    /\ ~fs[call.path].json
    /\ call.default = I(2)
    /\ call.o = Return(I(2))

C10_FileAutomation ==
    call.fn = "file_automation"
    => LET f == fs[call.path]
           r == call.o.ret.d
       IN  /\ call.o.exc = "none"
           /\ DOMAIN r = {"success", "message", "data"}
           /\ f = Missing
              => r = [success |-> B(FALSE),
                      message |-> S("File not found: " \o call.path),
                      data |-> Null]
           /\ (f.st = "text" /\ f.json)
              => r = [success |-> B(TRUE),
                      message |-> S("File successfully processed as JSON"),
                      data |-> f.v]
           /\ (f.st = "text" /\ ~f.json)
              => r = [success |-> B(FALSE),
                      message |-> S("File content is not valid JSON"),
                      data |-> S(f.raw)]
           /\ f.st = "unreadable"
              => r["success"] = B(FALSE) /\ r["data"] = Null
           /\ r["success"] = B(TRUE) <=> (f.st = "text" /\ f.json)
           /\ r["success"] = B(FALSE)
              => r["message"].t = "str" /\ Len(r["message"].s) >= 1

C10_Witness ==
    /\ call.fn = "file_automation"
    /\ fs[call.path] = TextFile("not json")
    /\ call.o.ret.d["success"] = B(FALSE)
    /\ call.o.ret.d["data"] = S("not json")

\* a response was received and its status is in [200, 300)
SuccessStatus(n) == n.kind = "response" /\ n.status >= 200 /\ n.status < 300

\* the parsed JSON body, or the raw text of a body that is not JSON
ParsedOrText(body) == IF body.json THEN body.v ELSE S(body.raw)

\* C11: api_automation never raises and classifies every outcome of its
\* request: a status in [200, 300) gives success = true, any other status
\* success = false with a message naming the status code, in both cases with
\* data = the parsed JSON body or else the raw text and status_code = the
\* response status; a transport failure gives success = false, status_code
\* null and a message.  success is true exactly for a response with a status
\* in [200, 300), and every failure carries a non-empty message.
C11_ApiAutomation ==
    call.fn = "api_automation"
    => LET r == call.o.ret.d
       IN  /\ call.o.exc = "none"
           /\ DOMAIN r = {"success", "message", "data", "status_code"}
           /\ SuccessStatus(net)
              => /\ r["success"] = B(TRUE)
                 /\ r["data"] = ParsedOrText(net.body)
                 /\ r["status_code"] = I(net.status)
           /\ (net.kind = "response" /\ ~SuccessStatus(net))
              => /\ r["success"] = B(FALSE)
                 /\ r["message"] = S("API request failed with status code: "
                                     \o ToString(net.status))
                 /\ r["data"] = ParsedOrText(net.body)
                 /\ r["status_code"] = I(net.status)
           /\ net.kind = "error"
              => /\ r["success"] = B(FALSE)
                 /\ r["status_code"] = Null
           /\ r["success"] = B(TRUE) <=> SuccessStatus(net)
           /\ r["success"] = B(FALSE)
              => r["message"].t = "str" /\ Len(r["message"].s) >= 1

C11_Witness ==
    /\ call.fn = "api_automation"
    /\ net = Response(299, TextFile("<html>"))
    /\ call.o.ret.d["success"] = B(TRUE)
    /\ call.o.ret.d["data"] = S("<html>")
    /\ call.o.ret.d["status_code"] = I(299)

====
